---- MODULE Spec2Model ----
(***************************************************************************)
(* AuthService (src/src/api/auth/auth.service.ts): the nine public         *)
(* operations of the authentication gateway, the commands they send to the *)
(* identity provider (Cognito) and the calls they make on the user table   *)
(* (Prisma).  Each client is one request slot; an operation advances from  *)
(* one await to the next, so that requests of different clients interleave *)
(* exactly where the event loop lets them.                                 *)
(***************************************************************************)
EXTENDS Integers, Sequences, FiniteSets, TLC

\* ------------------------------------------------------------------ bounds
NumClients == 2
MaxRows == 2

Clients == 1..NumClients
EmailOrder == <<"a@x.io", "b@x.io">>
Emails == {EmailOrder[i] : i \in DOMAIN EmailOrder}
\* a password the IsPassword policy accepts; codes of the six characters IsCode asks for
Passwords == {"Abc123!@"}
Codes == {"123456"}
SubOrder == <<"sub-1", "sub-2">>
Subs == {SubOrder[i] : i \in DOMAIN SubOrder}
Sessions == {"sess-1", "sess-2"}
SecretCodes == {"sec-1"}
Tokens == {"tok-1"}
ErrMsgs == {"msg-1", "msg-2"}

\* ------------------------------------------------------- program constants
PENDING_CONFIRMATION == "PENDING_CONFIRMATION"
DONE == "DONE"
NEW_PASSWORD_REQUIRED == "NEW_PASSWORD_REQUIRED"
MFA_SETUP == "MFA_SETUP"
SOFTWARE_TOKEN_MFA == "SOFTWARE_TOKEN_MFA"
\* resp.ChallengeName is undefined when the provider asks for no challenge
NO_CHALLENGE == "undefined"
ChallengeNames == {NEW_PASSWORD_REQUIRED, MFA_SETUP, SOFTWARE_TOKEN_MFA, NO_CHALLENGE}

\* names of the errors the provider's client rejects with
ErrNames == {"CodeMismatchException", "ExpiredCodeException",
             "NotAuthorizedException", "TooManyRequestsException"}
ProviderErrors == [class : {"ProviderError"}, name : ErrNames, message : ErrMsgs]
\* errors of the user table's client
StoreErrors == [class : {"PrismaError"}, name : {"ConnectionError"}, message : ErrMsgs]
RecordNotFound == [class |-> "PrismaError", name |-> "RecordNotFound", message |-> "msg-1"]

VARIABLES
    store,   \* the user table: a sequence of rows [email, sub, registrationStep]
    idp,     \* the provider's accounts: email -> "none" | "UNCONFIRMED" | "CONFIRMED"
    pc,      \* per client: the await its operation stands at, or "idle"
    local,   \* per client: the operation's input and the response it holds
    calls,   \* per client: the remote calls the running operation has issued
    settled  \* the operation that has just settled, until its caller resumes

vars == <<store, idp, pc, local, calls, settled>>

NoLocal == [op |-> "none"]
NotSettled == [op |-> "none"]

\* ------------------------------------------------------------ exceptions
DuplicateEmailException ==
    [class |-> "DuplicateEmailException",
     message |-> "A user associated with this email already exists"]

LoginUserException(message) ==
    [class |-> "LoginUserException",
     message |-> "auth.errors.incorrect-email-or-password",
     description |-> message]

InvalidUpdateUserException(message) ==
    [class |-> "InvalidUpdateUserException",
     message |-> "An error Occurred while updating the user",
     description |-> message]

ResendConfirmationCodeException(message) ==
    [class |-> "ResendConfirmationCodeException",
     message |-> "An error Occurred while resending the confirmation code",
     description |-> message]

ConfirmForgotPasswordException(name, message) ==
    [class |-> "ConfirmForgotPasswordException",
     message |-> <<"getConfirmPasswordExceptionGeneralErrorMessage", name>>,
     description |-> message]

SetupMFAException(name, message) ==
    [class |-> "SetupMFAException", name |-> name, description |-> message]

BadRequestException(message) ==
    [class |-> "BadRequestException", message |-> message]

BadRequestExceptionObj(message, name) ==
    [class |-> "BadRequestException", message |-> message, name |-> name]

\* ------------------------------------------------------------- outcomes
Resolved(value) == [status |-> "resolved", value |-> value]
Rejected(error) == [status |-> "rejected", value |-> error]
Void == [void |-> TRUE]

\* ---------------------------------------------------------- remote calls
\* a call: the command, its parameters and the answer it got
IdpCall(cmd, params, result) ==
    [target |-> "idp", cmd |-> cmd, params |-> params, result |-> result]
StoreCall(cmd, params, result) ==
    [target |-> "store", cmd |-> cmd, params |-> params, result |-> result]

IdpCalls(log) == SelectSeq(log, LAMBDA c : c.target = "idp")
StoreCalls(log) == SelectSeq(log, LAMBDA c : c.target = "store")
CallsOf(log, cmd) == SelectSeq(log, LAMBDA c : c.cmd = cmd)

\* --------------------------------------------------------- the user table
RowsOf(email) == {i \in DOMAIN store : store[i].email = email}

\* prisma.user.count({ where: { email } })
EmailCount(email) == Cardinality(RowsOf(email))

\* (mutation) the where clause dropped: every row is selected
UpdateMatchesEveryRow(row, email) == TRUE

\* prisma.user.update({ where: { email }, data: { registrationStep: DONE } }):
\* the row the where clause selects
UpdateWhereMatches(row, email) == row.email = email

UpdatedRow(row) == [row EXCEPT !.registrationStep = DONE]

\* (mutation) create in place of update: a second row, already DONE
CreateAfterSignupConfirmation(email) ==
    Append(store, [email |-> email, sub |-> SubOrder[1], registrationStep |-> DONE])

_updateUserAfterSignupConfirmation(email) ==
    [i \in DOMAIN store |->
        IF UpdateWhereMatches(store[i], email) THEN UpdatedRow(store[i]) ELSE store[i]]

\* ------------------------------------------------------------------ Init
\* The table and the provider's accounts outlive the service: it is
\* constructed over whatever rows and accounts exist.  email is the table's
\* unique key (update addresses a row by it), a row exists only for an account
\* the provider created, and a row is DONE only for a confirmed account.
InitWorlds ==
    {w \in [Emails -> [row : {"absent", PENDING_CONFIRMATION, DONE},
                       account : {"none", "UNCONFIRMED", "CONFIRMED"}]] :
        \A e \in Emails :
            /\ w[e].row = DONE => w[e].account = "CONFIRMED"
            /\ w[e].row # "absent" => w[e].account # "none"}

InitRows(w) ==
    LET all == [i \in DOMAIN EmailOrder |->
                    [email |-> EmailOrder[i], sub |-> SubOrder[i],
                     registrationStep |-> w[EmailOrder[i]].row]]
    IN SelectSeq(all, LAMBDA r : r.registrationStep # "absent")

Init ==
    \E w \in InitWorlds :
        /\ store = InitRows(w)
        /\ idp = [e \in Emails |-> w[e].account]
        /\ pc = [p \in Clients |-> "idle"]
        /\ local = [p \in Clients |-> NoLocal]
        /\ calls = [p \in Clients |-> <<>>]
        /\ settled = NotSettled

\* ------------------------------------------------------------ bookkeeping
\* the operation of client p settles with outcome out after the calls in log
Finish(p, op, input, out, log) ==
    /\ settled' = [op |-> op, input |-> input, out |-> out, calls |-> log]
    /\ pc' = [pc EXCEPT ![p] = "idle"]
    /\ local' = [local EXCEPT ![p] = NoLocal]
    /\ calls' = [calls EXCEPT ![p] = <<>>]

\* A settled promise resumes its caller in a microtask, ahead of every
\* callback of the event loop: no operation starts or resumes in between.
Ready(p) == pc[p] = "idle" /\ settled = NotSettled
Resumes(p, at) == pc[p] = at /\ settled = NotSettled

Deliver ==
    /\ settled # NotSettled
    /\ settled' = NotSettled
    /\ UNCHANGED <<store, idp, pc, local, calls>>

\* the operation of client p suspends at an await
Await(p, at, frame, log) ==
    /\ pc' = [pc EXCEPT ![p] = at]
    /\ local' = [local EXCEPT ![p] = frame]
    /\ calls' = [calls EXCEPT ![p] = log]
    /\ UNCHANGED settled

\* ---------------------------------------------------------------- signup
\* _checkIfEmailExists is async: what signup holds is the promise of the
\* count, whatever the count turns out to be
_checkIfEmailExists(email) == [type |-> "Promise", settles |-> EmailCount(email) > 0]

\* JavaScript's ToBoolean of an object: every object is true
Truthy(v) == IF v.type = "Promise" THEN TRUE ELSE v.settles

\* (mutation) the check removed
DuplicateGuardSkipped(v) == FALSE

\* (mutation) the check awaited: the guard reads the count
DuplicateGuardAwaited(v) == v.settles

\* if (this._checkIfEmailExists(input.email))
SignupDuplicateGuard(v) == Truthy(v)

\* registrationStep of the row _createNewUser inserts
RegistrationStepFor(UserConfirmed) ==
    IF UserConfirmed THEN PENDING_CONFIRMATION ELSE DONE

\* what the provider may answer to SignUpCommand
SignUpOutcomes(email) ==
    (IF idp[email] = "none"
        THEN [ok : {TRUE}, UserConfirmed : BOOLEAN, UserSub : Subs]
        ELSE {})
    \cup [ok : {FALSE}, error : ProviderErrors]

SignupInput == [email : Emails, password : Passwords]

signup(p) ==
    CASE Ready(p) ->
            \E input \in SignupInput :
                LET exists == _checkIfEmailExists(input.email)
                    log == <<StoreCall("count", [email |-> input.email],
                                       [ok |-> TRUE, count |-> EmailCount(input.email)])>>
                IN IF SignupDuplicateGuard(exists)
                      THEN /\ Finish(p, "signup", input, Rejected(DuplicateEmailException), log)
                           /\ UNCHANGED <<store, idp>>
                      ELSE /\ Await(p, "signup_send", [op |-> "signup", input |-> input], log)
                           /\ UNCHANGED <<store, idp>>
      [] Resumes(p, "signup_send") ->
            \* _createNewUser: await this._sendCreateNewUserCommand(input)
            \E r \in SignUpOutcomes(local[p].input.email) :
                LET input == local[p].input
                    log == Append(calls[p],
                                  IdpCall("SignUp", [Username |-> input.email,
                                                     Password |-> input.password], r))
                IN IF r.ok
                      THEN /\ idp' = [idp EXCEPT ![input.email] =
                                         IF r.UserConfirmed THEN "CONFIRMED" ELSE "UNCONFIRMED"]
                           /\ Await(p, "signup_insert",
                                    [op |-> "signup", input |-> input, resp |-> r], log)
                           /\ UNCHANGED store
                      ELSE /\ Finish(p, "signup", input,
                                     Rejected(BadRequestException(r.error.message)), log)
                           /\ UNCHANGED <<store, idp>>
      [] Resumes(p, "signup_insert") ->
            \* _createNewUser: await this.prisma.user.create({ data })
            \E r \in [ok : {TRUE}] \cup [ok : {FALSE}, error : StoreErrors] :
                LET input == local[p].input
                    resp == local[p].resp
                    row == [email |-> input.email, sub |-> resp.UserSub,
                            registrationStep |-> RegistrationStepFor(resp.UserConfirmed)]
                    log == Append(calls[p], StoreCall("create", row, r))
                IN IF r.ok
                      THEN /\ Len(store) < MaxRows
                           /\ store' = Append(store, row)
                           /\ Finish(p, "signup", input, Resolved(Void), log)
                           /\ UNCHANGED idp
                      ELSE /\ Finish(p, "signup", input,
                                     Rejected(BadRequestException(r.error.message)), log)
                           /\ UNCHANGED <<store, idp>>
      [] OTHER -> FALSE

\* --------------------------------------------------------- confirmSignup
\* what the provider may answer to ConfirmSignUpCommand
ConfirmSignUpOutcomes(email) ==
    (IF idp[email] # "none" THEN [ok : {TRUE}] ELSE {})
    \cup [ok : {FALSE}, error : ProviderErrors]

\* what the table may answer to update({ where: { email } })
UpdateOutcomes(email) ==
    IF EmailCount(email) = 0
        THEN {[ok |-> FALSE, error |-> RecordNotFound]}
        ELSE [ok : {TRUE}] \cup [ok : {FALSE}, error : StoreErrors]

\* (mutation) the command not awaited: the update runs whatever its answer
ContinuesRegardless(r) == TRUE

\* the try block goes on to the update once the awaited command has resolved
ConfirmSignupContinues(r) == r.ok

ConfirmSignupInput == [email : Emails, code : Codes]

confirmSignup(p) ==
    CASE Ready(p) ->
            \* await this._sendConfirmUserSignupCommand(input)
            \E input \in ConfirmSignupInput :
                \E r \in ConfirmSignUpOutcomes(input.email) :
                    LET log == <<IdpCall("ConfirmSignUp",
                                         [Username |-> input.email,
                                          ConfirmationCode |-> input.code], r)>>
                    IN /\ idp' = IF r.ok THEN [idp EXCEPT ![input.email] = "CONFIRMED"] ELSE idp
                       /\ UNCHANGED store
                       /\ IF ConfirmSignupContinues(r)
                             THEN Await(p, "confirm_update",
                                        [op |-> "confirmSignup", input |-> input], log)
                             ELSE Finish(p, "confirmSignup", input,
                                         Resolved(InvalidUpdateUserException(r.error.message)),
                                         log)
      [] Resumes(p, "confirm_update") ->
            \* await this._updateUserAfterSignupConfirmation(input.email)
            \E r \in UpdateOutcomes(local[p].input.email) :
                LET input == local[p].input
                    log == Append(calls[p],
                                  StoreCall("update", [email |-> input.email], r))
                IN /\ UNCHANGED idp
                   /\ IF r.ok
                         THEN /\ store' = _updateUserAfterSignupConfirmation(input.email)
                              /\ Finish(p, "confirmSignup", input, Resolved(Void), log)
                         ELSE /\ UNCHANGED store
                              /\ Finish(p, "confirmSignup", input,
                                        Resolved(InvalidUpdateUserException(r.error.message)),
                                        log)
      [] OTHER -> FALSE

\* ----------------------------------------------------------------- login
\* what the provider may answer to InitiateAuthCommand (USER_PASSWORD_AUTH)
InitiateAuthOutcomes ==
    [ok : {TRUE}, ChallengeName : ChallengeNames, Session : Sessions]
    \cup [ok : {FALSE}, error : ProviderErrors]

\* what the provider may answer to AssociateSoftwareTokenCommand
AssociateOutcomes ==
    [ok : {TRUE}, Session : Sessions, SecretCode : SecretCodes]
    \cup [ok : {FALSE}, error : ProviderErrors]

\* case ChallengeNameType.MFA_SETUP
IsMFASetup(resp) == resp.ChallengeName = MFA_SETUP

\* the branches of _handleLoginCommandResponse that send nothing
LoginChallengeResult(resp) ==
    IF resp.ChallengeName = NEW_PASSWORD_REQUIRED
        THEN [ChallengeName |-> NEW_PASSWORD_REQUIRED, Session |-> resp.Session]
        ELSE [ChallengeName |-> resp.ChallengeName, Session |-> resp.Session]

\* (mutation) the session of the login response returned again
LoginSetupResultStale(resp, res) ==
    [ChallengeName |-> MFA_SETUP, Session |-> resp.Session, SecretCode |-> res.SecretCode]

\* the MFA_SETUP branch, res being the answer to AssociateSoftwareToken
LoginSetupResult(resp, res) ==
    [ChallengeName |-> MFA_SETUP, Session |-> res.Session, SecretCode |-> res.SecretCode]

\* login returns the promise of _handleLoginCommandResponse without awaiting
\* it: the promise's rejection settles login after the try block was left,
\* and the catch clause never sees it
LoginSetupRejection(error) == error

LoginInput == [email : Emails, password : Passwords]

login(p) ==
    CASE Ready(p) ->
            \* const resp = await this._sendLoginCommand(input)
            \E input \in LoginInput :
                \E r \in InitiateAuthOutcomes :
                    LET log == <<IdpCall("InitiateAuth",
                                         [AuthFlow |-> "USER_PASSWORD_AUTH",
                                          USERNAME |-> input.email,
                                          PASSWORD |-> input.password], r)>>
                    IN /\ UNCHANGED <<store, idp>>
                       /\ IF ~r.ok
                             THEN Finish(p, "login", input,
                                         Rejected(LoginUserException(r.error.message)), log)
                             ELSE IF IsMFASetup(r)
                                     THEN Await(p, "login_setup",
                                                [op |-> "login", input |-> input, resp |-> r],
                                                log)
                                     ELSE Finish(p, "login", input,
                                                 Resolved(LoginChallengeResult(r)), log)
      [] Resumes(p, "login_setup") ->
            \* const res = await this._sendSetupMFACommand(resp.Session)
            \E r \in AssociateOutcomes :
                LET input == local[p].input
                    resp == local[p].resp
                    log == Append(calls[p],
                                  IdpCall("AssociateSoftwareToken",
                                          [Session |-> resp.Session], r))
                IN /\ UNCHANGED <<store, idp>>
                   /\ IF r.ok
                         THEN Finish(p, "login", input,
                                     Resolved(LoginSetupResult(resp, r)), log)
                         ELSE Finish(p, "login", input,
                                     Rejected(LoginSetupRejection(r.error)), log)
      [] OTHER -> FALSE

\* -------------------------------------------------------------- setupMFA
VerifyOutcomes ==
    [ok : {TRUE}, Status : {"SUCCESS"}, Session : Sessions]
    \cup [ok : {FALSE}, error : ProviderErrors]

SetupMFAInput == [session : Sessions, code : Codes]

setupMFA(p) ==
    /\ Ready(p)
    /\ \E input \in SetupMFAInput :
        \E r \in VerifyOutcomes :
            LET log == <<IdpCall("VerifySoftwareToken",
                                 [Session |-> input.session, UserCode |-> input.code], r)>>
            IN IF r.ok
                  THEN Finish(p, "setupMFA", input,
                              Resolved([Status |-> r.Status, Session |-> r.Session]), log)
                  ELSE Finish(p, "setupMFA", input,
                              Rejected(SetupMFAException(r.error.name, r.error.message)), log)
    /\ UNCHANGED <<store, idp>>

\* ---------------------------------------------------------- confirmLogin
RespondOutcomes ==
    [ok : {TRUE}, AuthenticationResult : [AccessToken : Tokens]]
    \cup [ok : {FALSE}, error : ProviderErrors]

\* (mutation) ExpiredCodeException not reclassified
ConfirmLoginFailureNoExpiry(error) ==
    IF error.name = "CodeMismatchException"
        THEN BadRequestExceptionObj("Invalid code, please try again", "CodeMismatchException")
        ELSE IF error.name = "NotAuthorizedException"
                THEN BadRequestExceptionObj("Session expired, please try again",
                                            "NotAuthorizedException")
                ELSE error

\* the catch clause of confirmLogin
ConfirmLoginFailure(error) ==
    IF error.name = "CodeMismatchException" \/ error.name = "ExpiredCodeException"
        THEN BadRequestExceptionObj("Invalid code, please try again", "CodeMismatchException")
        ELSE IF error.name = "NotAuthorizedException"
                THEN BadRequestExceptionObj("Session expired, please try again",
                                            "NotAuthorizedException")
                ELSE error

ConfirmLoginInput == [email : Emails, session : Sessions, code : Codes]

confirmLogin(p) ==
    /\ Ready(p)
    /\ \E input \in ConfirmLoginInput :
        \E r \in RespondOutcomes :
            LET log == <<IdpCall("RespondToAuthChallenge",
                                 [ChallengeName |-> SOFTWARE_TOKEN_MFA,
                                  Session |-> input.session,
                                  USERNAME |-> input.email,
                                  SOFTWARE_TOKEN_MFA_CODE |-> input.code], r)>>
            IN IF r.ok
                  THEN Finish(p, "confirmLogin", input, Resolved(r.AuthenticationResult), log)
                  ELSE Finish(p, "confirmLogin", input,
                              Rejected(ConfirmLoginFailure(r.error)), log)
    /\ UNCHANGED <<store, idp>>

\* ------------------------------------------------ the pass-through flows
SimpleOutcomes == [ok : {TRUE}] \cup [ok : {FALSE}, error : ProviderErrors]

resendConfirmationCode(p) ==
    /\ Ready(p)
    /\ \E input \in [email : Emails] :
        \E r \in SimpleOutcomes :
            LET log == <<IdpCall("ResendConfirmationCode", [Username |-> input.email], r)>>
            IN IF r.ok
                  THEN Finish(p, "resendConfirmationCode", input, Resolved(Void), log)
                  ELSE Finish(p, "resendConfirmationCode", input,
                              Rejected(ResendConfirmationCodeException(r.error.message)), log)
    /\ UNCHANGED <<store, idp>>

forgotPassword(p) ==
    /\ Ready(p)
    /\ \E input \in [email : Emails] :
        \E r \in SimpleOutcomes :
            LET log == <<IdpCall("ForgotPassword", [Username |-> input.email], r)>>
            IN IF r.ok
                  THEN Finish(p, "forgotPassword", input, Resolved(Void), log)
                  ELSE Finish(p, "forgotPassword", input, Rejected(r.error), log)
    /\ UNCHANGED <<store, idp>>

resetPassword(p) ==
    /\ Ready(p)
    /\ \E input \in [email : Emails, code : Codes, password : Passwords] :
        \E r \in SimpleOutcomes :
            LET log == <<IdpCall("ConfirmForgotPassword",
                                 [ConfirmationCode |-> input.code,
                                  Password |-> input.password,
                                  Username |-> input.email], r)>>
            IN IF r.ok
                  THEN Finish(p, "resetPassword", input, Resolved([metadata |-> "ok"]), log)
                  ELSE Finish(p, "resetPassword", input,
                              Rejected(ConfirmForgotPasswordException(r.error.name,
                                                                      r.error.message)), log)
    /\ UNCHANGED <<store, idp>>

refreshToken(p) ==
    /\ Ready(p)
    /\ \E input \in [refreshToken : Tokens] :
        \E r \in RespondOutcomes :
            LET log == <<IdpCall("InitiateAuth",
                                 [AuthFlow |-> "REFRESH_TOKEN",
                                  REFRESH_TOKEN |-> input.refreshToken], r)>>
            IN IF r.ok
                  THEN Finish(p, "refreshToken", input,
                              Resolved([AuthenticationResult |-> r.AuthenticationResult]), log)
                  ELSE Finish(p, "refreshToken", input, Rejected(r.error), log)
    /\ UNCHANGED <<store, idp>>

\* ------------------------------------------------------------------ Next
Next ==
    \/ Deliver
    \/ \E p \in Clients :
        \/ signup(p)
        \/ confirmSignup(p)
        \/ login(p)
        \/ setupMFA(p)
        \/ confirmLogin(p)
        \/ resendConfirmationCode(p)
        \/ forgotPassword(p)
        \/ resetPassword(p)
        \/ refreshToken(p)

Spec == Init /\ [][Next]_vars

\* ================================================================ claims
HasSettled(op) == settled.op = op
Failed(log) == \E i \in DOMAIN log : ~log[i].result.ok
\* the count the duplicate check of a settled signup read
CountRead == settled.calls[1].result.count

\* C1: a signup whose email already has a row fails with
\* DuplicateEmailException, sends no SignUp command and inserts no row.
C1_DuplicateSignupRejected ==
    (HasSettled("signup") /\ CountRead > 0) =>
        /\ settled.out = Rejected(DuplicateEmailException)
        /\ CallsOf(settled.calls, "SignUp") = <<>>
        /\ CallsOf(settled.calls, "create") = <<>>

C1_Witness ==
    /\ HasSettled("signup")
    /\ CountRead > 0
    /\ EmailCount(settled.input.email) = 1
    /\ settled.out.status = "rejected"

\* C2: a signup whose email has no row, and whose calls all succeed, has sent
\* exactly one SignUp command and inserted exactly one row for the email, with
\* the sub the provider returned, PENDING_CONFIRMATION when the provider
\* reports the account unconfirmed and DONE when it reports it confirmed.
C2_FreshSignupCreatesUser ==
    (HasSettled("signup") /\ CountRead = 0 /\ ~Failed(settled.calls)) =>
        LET sent == CallsOf(settled.calls, "SignUp")
            made == CallsOf(settled.calls, "create")
        IN /\ Len(sent) = 1
           /\ Len(made) = 1
           /\ made[1].params.email = settled.input.email
           /\ made[1].params.sub = sent[1].result.UserSub
           /\ made[1].params.registrationStep =
                 (IF sent[1].result.UserConfirmed THEN DONE ELSE PENDING_CONFIRMATION)

\* the steps of a confirmSignup: its command is sent, or it settles
ConfirmSignupStep ==
    \/ \E p \in Clients : pc[p] = "idle" /\ pc'[p] = "confirm_update"
    \/ settled = NotSettled /\ settled'.op = "confirmSignup"

\* C3: a confirmSignup whose code the provider accepts and whose update
\* succeeds changes the table in one way only: the row of that email has
\* registrationStep = DONE.  Its email and sub, every other row and the number
\* of rows are unchanged; no other step of the operation touches the table.
C3_ConfirmOnlySetsDone ==
    [][ConfirmSignupStep =>
         IF settled'.op = "confirmSignup" /\ settled'.out = Resolved(Void)
            THEN /\ Len(store') = Len(store)
                 /\ \E i \in DOMAIN store : store[i].email = settled'.input.email
                 /\ \A i \in DOMAIN store :
                       IF store[i].email = settled'.input.email
                          THEN store'[i] = [email |-> store[i].email, sub |-> store[i].sub,
                                            registrationStep |-> DONE]
                          ELSE store'[i] = store[i]
            ELSE store' = store]_vars

C3_Witness ==
    /\ HasSettled("confirmSignup")
    /\ settled.out = Resolved(Void)
    /\ \E i, j \in DOMAIN store :
          /\ store[i].email = settled.input.email
          /\ store[i].registrationStep = DONE
          /\ store[j].email # settled.input.email
          /\ store[j].registrationStep = PENDING_CONFIRMATION

\* C4: a confirmSignup in which the provider's command or the update fails
\* ends in a confirmation failure raised to the caller; it never resolves.
C4_ConfirmFailureRaised ==
    (HasSettled("confirmSignup") /\ Failed(settled.calls)) =>
        /\ settled.out.status = "rejected"
        /\ settled.out.value.class \in {"ConfirmSignupException", "InvalidUpdateUserException"}

\* C5: a login whose InitiateAuth succeeds sends AssociateSoftwareToken if and
\* only if the challenge is MFA_SETUP, then exactly once and with the session
\* of the login response; its result then carries the SecretCode and Session
\* of that call's answer.  For NEW_PASSWORD_REQUIRED the result is exactly
\* {ChallengeName, Session} of the login response.
C5_LoginChallenge ==
    (HasSettled("login") /\ settled.calls[1].result.ok) =>
        LET resp == settled.calls[1].result
            assoc == CallsOf(settled.calls, "AssociateSoftwareToken")
        IN /\ (assoc # <<>>) <=> (resp.ChallengeName = MFA_SETUP)
           /\ Len(assoc) <= 1
           /\ assoc # <<>> => assoc[1].params = [Session |-> resp.Session]
           /\ (assoc # <<>> /\ settled.out.status = "resolved") =>
                 settled.out.value = [ChallengeName |-> MFA_SETUP,
                                      Session |-> assoc[1].result.Session,
                                      SecretCode |-> assoc[1].result.SecretCode]
           /\ resp.ChallengeName = NEW_PASSWORD_REQUIRED =>
                 settled.out = Resolved([ChallengeName |-> NEW_PASSWORD_REQUIRED,
                                         Session |-> resp.Session])

C5_Witness ==
    /\ HasSettled("login")
    /\ Len(settled.calls) = 2
    /\ settled.out.status = "resolved"
    /\ settled.out.value.Session # settled.calls[1].result.Session
    /\ settled.out.value.SecretCode = settled.calls[2].result.SecretCode

\* C6: a login in which a provider command fails (InitiateAuth, or
\* AssociateSoftwareToken after MFA_SETUP) is rejected with LoginUserException.
C6_LoginFailureReclassified ==
    (HasSettled("login") /\ Failed(settled.calls)) =>
        /\ settled.out.status = "rejected"
        /\ settled.out.value.class = "LoginUserException"

\* C7: a confirmLogin whose command fails is rejected by the error's name
\* alone: CodeMismatchException and ExpiredCodeException give "Invalid code,
\* please try again" named CodeMismatchException, NotAuthorizedException gives
\* "Session expired, please try again", any other error is rethrown as it is.
\* On success the provider's AuthenticationResult is returned.
C7_ConfirmLoginOutcome ==
    HasSettled("confirmLogin") =>
        LET r == settled.calls[1].result
            out == settled.out
        IN IF r.ok
              THEN out = Resolved(r.AuthenticationResult)
              ELSE /\ out.status = "rejected"
                   /\ r.error.name \in {"CodeMismatchException", "ExpiredCodeException"} =>
                         /\ out.value.message = "Invalid code, please try again"
                         /\ out.value.name = "CodeMismatchException"
                   /\ r.error.name = "NotAuthorizedException" =>
                         out.value.message = "Session expired, please try again"
                   /\ r.error.name \notin {"CodeMismatchException", "ExpiredCodeException",
                                           "NotAuthorizedException"} =>
                         out.value = r.error

C7_Witness ==
    /\ HasSettled("confirmLogin")
    /\ ~settled.calls[1].result.ok
    /\ settled.calls[1].result.error.name = "ExpiredCodeException"
    /\ settled.out.value.name = "CodeMismatchException"

RowIsConfirmed(row) == row.registrationStep = DONE => idp[row.email] = "CONFIRMED"

WithinCallBudget(op, log) ==
    /\ Len(IdpCalls(log)) <= 2
    /\ Len(IdpCalls(log)) = 2 =>
          /\ op = "login"
          /\ log[1].cmd = "InitiateAuth"
          /\ log[1].result.ok
          /\ log[1].result.ChallengeName = MFA_SETUP
    /\ Len(StoreCalls(log)) <= 1
    /\ \A i, j \in DOMAIN log :
          (i < j /\ ~log[i].result.ok) => log[j].cmd # log[i].cmd

====
